---- MODULE Spec2Model ----
(***************************************************************************)
(* Model of the tweet availability checker (check_tweet_links.py, app.py). *)
(*                                                                         *)
(* Strings are sequences of atomic text tokens.  A token is a piece of     *)
(* text that the program never looks inside ("twitter.com", "acct", "1")   *)
(* or a single delimiter character ("/", "?", "#", " ", "[").  The scheme  *)
(* prefix "https://" is the three tokens "https:", "/", "/".  The token    *)
(* alphabet is chosen so that every string has exactly one tokenisation,   *)
(* hence equality of token sequences is equality of strings.               *)
(*                                                                         *)
(* Optional values (Python None) are sequences of length 0 or 1.           *)
(***************************************************************************)
EXTENDS Integers, Sequences, FiniteSets, TLC

None == <<>>
Some(x) == <<x>>

\* a Python value that is a string
Text(s) == [str |-> TRUE, val |-> s]

(***************************************************************************)
(* Text primitives                                                         *)
(***************************************************************************)

\* str.lower() on one token: only these tokens of the alphabet carry capitals
Lower(tok) ==
    CASE tok = "HTTPS:" -> "https:"
      [] tok = "Twitter.com" -> "twitter.com"
      [] tok = "WWW." -> "www."
      [] OTHER -> tok

LowerStr(s) == [i \in 1..Len(s) |-> Lower(s[i])]

StartsWith(s, p) == Len(s) >= Len(p) /\ SubSeq(s, 1, Len(p)) = p

\* s.lower().startswith(("http://", "https://"))
HasHttpPrefix(s) ==
    \/ StartsWith(LowerStr(s), <<"http:", "/", "/">>)
    \/ StartsWith(LowerStr(s), <<"https:", "/", "/">>)

RECURSIVE LStrip(_, _)
LStrip(s, ch) == IF s # <<>> /\ s[1] = ch THEN LStrip(Tail(s), ch) ELSE s

RECURSIVE RStrip(_, _)
RStrip(s, ch) ==
    IF s # <<>> /\ s[Len(s)] = ch THEN RStrip(SubSeq(s, 1, Len(s) - 1), ch) ELSE s

\* str.strip(): the only whitespace of the alphabet is the blank
Strip(s) == RStrip(LStrip(s, " "), " ")

\* index of the first token of s that is in delims, Len(s) + 1 when there is none
FirstIdx(s, delims) ==
    IF \E i \in 1..Len(s) : s[i] \in delims
    THEN CHOOSE i \in 1..Len(s) : s[i] \in delims /\ \A j \in 1..(i - 1) : s[j] \notin delims
    ELSE Len(s) + 1

Range(s) == {s[i] : i \in 1..Len(s)}

\* the text of a status code inside an f-string
StatusText(code) == ToString(code)

(***************************************************************************)
(* urllib.parse                                                            *)
(***************************************************************************)

\* tokens that urlsplit accepts as a scheme followed by ':'
SchemeTokens == {"https:", "http:", "HTTPS:"}

SchemeName(tok) == IF Lower(tok) = "https:" THEN "https" ELSE "http"

SchemeToken(scheme) == IF scheme = "https" THEN "https:" ELSE "http:"

\* the part of s before the first token in delims (all of s without one)
Before(s, delims) == SubSeq(s, 1, FirstIdx(s, delims) - 1)

\* the part of s after the first token in delims (nothing without one)
After(s, delims) == SubSeq(s, FirstIdx(s, delims) + 1, Len(s))

\* the part of s from the first token in delims on
From(s, delims) == SubSeq(s, FirstIdx(s, delims), Len(s))

HasScheme(url) == url # <<>> /\ url[1] \in SchemeTokens

\* urlsplit: what follows "scheme:"
AfterScheme(url) == IF HasScheme(url) THEN Tail(url) ELSE url

\* urlsplit: the netloc of what follows the scheme, present after "//" only
NetlocOf(rest) ==
    IF StartsWith(rest, <<"/", "/">>)
    THEN Before(SubSeq(rest, 3, Len(rest)), {"/", "?", "#"})
    ELSE <<>>

\* urlsplit: what follows the netloc
AfterNetloc(rest) ==
    IF StartsWith(rest, <<"/", "/">>)
    THEN From(SubSeq(rest, 3, Len(rest)), {"/", "?", "#"})
    ELSE rest

\* urlsplit raises ValueError("Invalid IPv6 URL") on one bracket without the
\* other (the alphabet has no "]": a bracketed host is not modelled)
BracketsMatch(netloc) == ("[" \in Range(netloc)) = ("]" \in Range(netloc))

\* urlsplit: the fragment is split off first, then the query
ParsedFrom(scheme, rest) ==
    [ok |-> BracketsMatch(NetlocOf(rest)),
     scheme |-> scheme,
     netloc |-> NetlocOf(rest),
     path |-> Before(Before(AfterNetloc(rest), {"#"}), {"?"}),
     query |-> After(Before(AfterNetloc(rest), {"#"}), {"?"}),
     fragment |-> After(AfterNetloc(rest), {"#"})]

\* urlparse(url): ok = FALSE stands for the ValueError; no token of the
\* alphabet is ";", so params is always empty
urlparse(url) ==
    ParsedFrom(IF HasScheme(url) THEN SchemeName(url[1]) ELSE "", AfterScheme(url))

\* the path after urlunsplit has put "//" + netloc in front of it
WithNetloc(scheme, netloc, path) ==
    IF netloc # <<>> \/ (scheme # "" /\ ~StartsWith(path, <<"/", "/">>))
    THEN <<"/", "/">> \o netloc \o
         (IF path # <<>> /\ path[1] # "/" THEN <<"/">> \o path ELSE path)
    ELSE path

\* urlunparse((scheme, netloc, path, "", query, "")); every scheme used is in uses_netloc
urlunparse(scheme, netloc, path, query) ==
    (IF scheme # "" THEN <<SchemeToken(scheme)>> ELSE <<>>)
    \o WithNetloc(scheme, netloc, path)
    \o (IF query # <<>> THEN <<"?">> \o query ELSE <<>>)

(***************************************************************************)
(* Identifier Extractor                                                    *)
(***************************************************************************)

\* tokens whose text ends with "twitter.com" or "x.com" (case-sensitive), the
\* host part of TWEET_URL_RE; the optional scheme and "www." prefixes of the
\* pattern never decide whether re.search finds a match
MatchesHostRe(tok) ==
    tok \in {"twitter.com", "x.com", "mobile.twitter.com", "m.twitter.com",
             "mobile.x.com", "m.x.com", "nottwitter.com"}

\* \d+
IsDigits(tok) == tok \in {"1", "2"}

\* positions of a host token followed by "/"
HostIdx(s) == {i \in 1..(Len(s) - 1) : MatchesHostRe(s[i]) /\ s[i + 1] = "/"}

\* positions where "/status/<digits>" or "/statuses/<digits>" starts
StatusIdx(s) ==
    {j \in 1..(Len(s) - 3) :
        /\ s[j] = "/" /\ s[j + 1] \in {"status", "statuses"} /\ s[j + 2] = "/"
        /\ IsDigits(s[j + 3])}

\* the matches <<i, j>> of TWEET_URL_RE: the host token is at i, "/status/"
\* starts at j and ".+?" covers the tokens i + 2 .. j - 1 (at least one)
TweetUrlReMatches(s) == {m \in HostIdx(s) \X StatusIdx(s) : m[2] >= m[1] + 3}

\* re.search returns the leftmost match, and the lazy ".+?" ends at the
\* first "/status/"
FirstMatch(matches) ==
    CHOOSE m \in matches :
        \A o \in matches : m[1] < o[1] \/ (m[1] = o[1] /\ m[2] <= o[2])

\* match.group(1) if match else None
GroupOne(s, matches) ==
    IF matches = {} THEN None ELSE Some(<<s[FirstMatch(matches)[2] + 3]>>)

\* a row value is [str |-> BOOLEAN, val |-> text]: a spreadsheet cell that is
\* not a string (an empty cell is NaN) has str = FALSE
extract_tweet_id(url) ==
    IF ~url.str THEN None ELSE GroupOne(url.val, TweetUrlReMatches(url.val))

(***************************************************************************)
(* URL Normalizer                                                          *)
(***************************************************************************)

allowed_hosts == {"twitter.com", "mobile.twitter.com", "m.twitter.com", "x.com", "mobile.x.com"}

\* host = parsed.netloc.lower(); if host.startswith("www."): host = host[4:]
HostOf(netloc) ==
    LET host == LowerStr(netloc)
    IN IF host # <<>> /\ host[1] = "www." THEN Tail(host) ELSE host

\* trimmed after the two scheme repairs
WithHttps(trimmed) ==
    IF StartsWith(trimmed, <<"/", "/">>) THEN <<"https:">> \o trimmed
    ELSE IF ~HasHttpPrefix(trimmed) THEN <<"https:", "/", "/">> \o trimmed
    ELSE trimmed

\* the host test and the return statement; raised stands for the ValueError
\* of urlparse
NormalizeParsed(parsed) ==
    IF ~parsed.ok THEN [raised |-> TRUE, val |-> None]
    ELSE IF ~(Len(HostOf(parsed.netloc)) = 1 /\ HostOf(parsed.netloc)[1] \in allowed_hosts)
    THEN [raised |-> FALSE, val |-> None]
    ELSE [raised |-> FALSE,
          val |-> Some(urlunparse("https", HostOf(parsed.netloc), parsed.path, <<>>))]

\* [raised |-> the call raises ValueError, val |-> None or Some(url)]
normalize_input_url(url) ==
    IF ~url.str \/ Strip(url.val) = <<>> THEN [raised |-> FALSE, val |-> None]
    ELSE NormalizeParsed(urlparse(WithHttps(Strip(url.val))))

(***************************************************************************)
(* Candidate Generator                                                     *)
(***************************************************************************)

\* host.endswith("twitter.com"), host.endswith("mobile.twitter.com") and
\* host.endswith("m.twitter.com"), host.endswith(".x.com"), on the token text
EndsWithTwitterCom(host) ==
    host # <<>> /\ host[Len(host)] \in
        {"twitter.com", "mobile.twitter.com", "m.twitter.com", "nottwitter.com"}

EndsWithMobileTwitterCom(host) ==
    host # <<>> /\ host[Len(host)] \in {"mobile.twitter.com", "m.twitter.com"}

EndsWithDotXCom(host) ==
    /\ host # <<>>
    /\ \/ host[Len(host)] \in {"mobile.x.com", "m.x.com"}
       \/ Len(host) >= 2 /\ host[Len(host)] = "x.com" /\ host[Len(host) - 1] = "www."

\* the if/elif chain on the host
XHost(host) ==
    IF EndsWithTwitterCom(host) THEN <<"x.com">>
    ELSE IF EndsWithMobileTwitterCom(host) THEN <<"x.com">>
    ELSE IF EndsWithDotXCom(host) THEN <<"x.com">>
    ELSE IF host # <<"x.com">> THEN <<"x.com">>
    ELSE host

ConvertParsed(parsed, keep_query) ==
    urlunparse("https", XHost(HostOf(parsed.netloc)), parsed.path,
               IF keep_query THEN parsed.query ELSE <<>>)

\* the url argument always parses: it is a normalized URL or a URL that
\* normalize_input_url has just accepted
convert_to_x_domain(url, keep_query) == ConvertParsed(urlparse(url), keep_query)

\* TemplateSeeds with the "web status" lines pasted over the "status" lines
TemplateSeedsWebOnly(tweet_id) ==
    << <<"https:", "/", "/", "x.com", "/", "i", "/", "web", "/", "status", "/">> \o tweet_id,
       <<"https:", "/", "/", "twitter.com", "/", "i", "/", "web", "/", "status", "/">> \o tweet_id,
       <<"https:", "/", "/", "x.com", "/", "i", "/", "web", "/", "status", "/">> \o tweet_id,
       <<"https:", "/", "/", "twitter.com", "/", "i", "/", "web", "/", "status", "/">> \o tweet_id >>

\* the four f-string templates, in source order
TemplateSeeds(tweet_id) ==
    << <<"https:", "/", "/", "x.com", "/", "i", "/", "web", "/", "status", "/">> \o tweet_id,
       <<"https:", "/", "/", "twitter.com", "/", "i", "/", "web", "/", "status", "/">> \o tweet_id,
       <<"https:", "/", "/", "x.com", "/", "i", "/", "status", "/">> \o tweet_id,
       <<"https:", "/", "/", "twitter.com", "/", "i", "/", "status", "/">> \o tweet_id >>

\* a JSON value v is None or Some([str, val]); a non-string stands for a
\* truthy one (a number, a non-empty list)
Truthy(v) == v # None /\ (v[1].str => v[1].val # <<>>)

\* Seeds with the caller's URL in front of the canonical URL
SeedsInputFirst(tweet_id, normalized_url, canonical_url) ==
    (IF normalized_url # <<>> THEN <<Text(normalized_url)>> ELSE <<>>)
    \o (IF Truthy(canonical_url) THEN <<canonical_url[1]>> ELSE <<>>)
    \o [i \in 1..4 |-> Text(TemplateSeeds(tweet_id)[i])]

\* seeds list of build_fetch_urls: values as [str, val] records
Seeds(tweet_id, normalized_url, canonical_url) ==
    (IF Truthy(canonical_url) THEN <<canonical_url[1]>> ELSE <<>>)
    \o (IF normalized_url # <<>> THEN <<Text(normalized_url)>> ELSE <<>>)
    \o [i \in 1..4 |-> Text(TemplateSeeds(tweet_id)[i])]

\* raw with a scheme ensured
SeedWithScheme(raw) ==
    IF StartsWith(raw, <<"/", "/">>) THEN <<"https:">> \o raw
    ELSE IF ~HasHttpPrefix(raw) THEN <<"https:", "/", "/">> \o LStrip(raw, "/")
    ELSE raw

\* AddCandidate without the test against seen
AddCandidateAlways(acc, u) ==
    [acc EXCEPT !.seen = acc.seen \cup {u}, !.candidates = Append(acc.candidates, u)]

AddCandidate(acc, u) ==
    IF u \in acc.seen THEN acc
    ELSE [acc EXCEPT !.seen = acc.seen \cup {u}, !.candidates = Append(acc.candidates, u)]

\* urlunparse((parsed.scheme or "https", parsed.netloc, parsed.path, "", query, ""))
SeedUrl(parsed, query) ==
    urlunparse(IF parsed.scheme # "" THEN parsed.scheme ELSE "https",
               parsed.netloc, parsed.path, query)

\* the query-stripped candidate of a seed
AddBase(acc, normalized_base) ==
    IF normalized_base.val # None
    THEN AddCandidate(acc, convert_to_x_domain(normalized_base.val[1], FALSE))
    ELSE acc

\* the query-preserving candidate of a seed
AddQuery(acc, query_url) ==
    IF normalize_input_url(Text(query_url)).val # None
    THEN AddCandidate(acc, convert_to_x_domain(query_url, TRUE))
    ELSE acc

\* the body of the for loop once the seed is parsed
SeedParsed(acc, parsed) ==
    IF ~parsed.ok THEN [acc EXCEPT !.raised = TRUE]
    ELSE IF parsed.query # <<>>
    THEN AddQuery(AddBase(acc, normalize_input_url(Text(SeedUrl(parsed, <<>>)))),
                  SeedUrl(parsed, parsed.query))
    ELSE AddBase(acc, normalize_input_url(Text(SeedUrl(parsed, <<>>))))

\* one iteration of the for loop over seeds; acc = [raised, seen, candidates],
\* raised stands for the AttributeError of a seed that is not a string and
\* for the ValueError of urlparse
SeedStep(acc, seed) ==
    IF acc.raised THEN acc
    ELSE IF ~seed.str THEN [acc EXCEPT !.raised = TRUE]
    ELSE IF seed.val = <<>> THEN acc
    ELSE SeedParsed(acc, urlparse(SeedWithScheme(seed.val)))

\* the for loop over seeds; the set constructor makes TLC evaluate the
\* accumulator once per iteration
RECURSIVE SeedLoop(_, _)
SeedLoop(acc, seeds) ==
    IF seeds = <<>> THEN acc
    ELSE CHOOSE r \in {SeedLoop(a, Tail(seeds)) : a \in {SeedStep(acc, Head(seeds))}} : TRUE

FetchUrls(acc) == [raised |-> acc.raised, val |-> acc.candidates]

\* [raised |-> an exception escapes, val |-> the candidate list]
build_fetch_urls(tweet_id, normalized_url, canonical_url) ==
    FetchUrls(SeedLoop([raised |-> FALSE, seen |-> {}, candidates |-> <<>>],
                       Seeds(tweet_id, normalized_url, canonical_url)))

(***************************************************************************)
(* Availability Classifier: the branches of check_tweet                    *)
(***************************************************************************)

Outcome(availability, http_status, detail, oembed_status, checked_url) ==
    [availability |-> availability, http_status |-> http_status, detail |-> detail,
     oembed_status |-> oembed_status, checked_url |-> checked_url]

\* NotNormalized reported as a failure of the check instead of a bad URL
NotNormalizedAsError ==
    Outcome("error", None, Some(<<"URL could not be normalized">>), None, None)

\* return value when normalize_input_url gives nothing
NotNormalized ==
    Outcome("invalid_url", None, Some(<<"URL could not be normalized">>), None, None)

\* return value of the except branch around the oEmbed request
OembedFailed(exc) ==
    Outcome("error", None, Some(<<"oEmbed request failed: ">> \o exc), None, None)

\* OembedBranch whose 404 case falls through to the direct fetches
OembedBranchPass404(status_code, oembed_status) ==
    IF status_code \in {200, 404} THEN None
    ELSE IF status_code \in {401, 403}
    THEN Some(Outcome("restricted", Some(status_code),
                      Some(<<"Tweet requires authentication or is protected">>),
                      Some(oembed_status), None))
    ELSE IF status_code = 429
    THEN Some(Outcome("rate_limited", Some(status_code),
                      Some(<<"Rate limited by Twitter oEmbed endpoint">>),
                      Some(oembed_status), None))
    ELSE Some(Outcome("unknown", Some(status_code),
                      Some(<<"Unexpected ", StatusText(status_code), " response from oEmbed">>),
                      Some(oembed_status), None))

\* OembedBranch that tests 401 only, so that 403 ends in the else branch
OembedBranchNo403(status_code, oembed_status) ==
    IF status_code = 200 THEN None
    ELSE IF status_code = 401
    THEN Some(Outcome("restricted", Some(status_code),
                      Some(<<"Tweet requires authentication or is protected">>),
                      Some(oembed_status), None))
    ELSE IF status_code = 404
    THEN Some(Outcome("not_found", Some(status_code), Some(<<"Tweet not found or removed">>),
                      Some(oembed_status), None))
    ELSE IF status_code = 429
    THEN Some(Outcome("rate_limited", Some(status_code),
                      Some(<<"Rate limited by Twitter oEmbed endpoint">>),
                      Some(oembed_status), None))
    ELSE Some(Outcome("unknown", Some(status_code),
                      Some(<<"Unexpected ", StatusText(status_code), " response from oEmbed">>),
                      Some(oembed_status), None))

\* the if/elif chain on the oEmbed status: None when the code goes on to the
\* direct fetches, Some(return value) otherwise
OembedBranch(status_code, oembed_status) ==
    IF status_code = 200 THEN None
    ELSE IF status_code \in {401, 403}
    THEN Some(Outcome("restricted", Some(status_code),
                      Some(<<"Tweet requires authentication or is protected">>),
                      Some(oembed_status), None))
    ELSE IF status_code = 404
    THEN Some(Outcome("not_found", Some(status_code), Some(<<"Tweet not found or removed">>),
                      Some(oembed_status), None))
    ELSE IF status_code = 429
    THEN Some(Outcome("rate_limited", Some(status_code),
                      Some(<<"Rate limited by Twitter oEmbed endpoint">>),
                      Some(oembed_status), None))
    ELSE Some(Outcome("unknown", Some(status_code),
                      Some(<<"Unexpected ", StatusText(status_code), " response from oEmbed">>),
                      Some(oembed_status), None))

\* FetchBranch without the 410 case: the loop goes on after a 410
FetchBranchNo410(fetch_status, oembed_status, candidate_url) ==
    IF fetch_status = 200
    THEN Some(Outcome("public", Some(fetch_status), None, Some(oembed_status),
                      Some(candidate_url)))
    ELSE IF fetch_status \in {401, 403}
    THEN Some(Outcome("restricted", Some(fetch_status),
                      Some(<<"Tweet requires authentication or is protected">>),
                      Some(oembed_status), Some(candidate_url)))
    ELSE IF fetch_status = 429
    THEN Some(Outcome("rate_limited", Some(fetch_status),
                      Some(<<"Rate limited while fetching tweet">>),
                      Some(oembed_status), Some(candidate_url)))
    ELSE IF fetch_status = 451
    THEN Some(Outcome("unavailable_legal", Some(fetch_status),
                      Some(<<"Tweet unavailable due to legal demand">>),
                      Some(oembed_status), Some(candidate_url)))
    ELSE None

\* FetchBranch that returns on a 404 instead of trying the next candidate
FetchBranchStop404(fetch_status, oembed_status, candidate_url) ==
    IF fetch_status = 200
    THEN Some(Outcome("public", Some(fetch_status), None, Some(oembed_status),
                      Some(candidate_url)))
    ELSE IF fetch_status \in {401, 403}
    THEN Some(Outcome("restricted", Some(fetch_status),
                      Some(<<"Tweet requires authentication or is protected">>),
                      Some(oembed_status), Some(candidate_url)))
    ELSE IF fetch_status = 404
    THEN Some(Outcome("not_found", Some(fetch_status),
                      Some(<<"Tweet page returned 404 despite oEmbed success">>),
                      Some(oembed_status), Some(candidate_url)))
    ELSE IF fetch_status = 410
    THEN Some(Outcome("gone", Some(fetch_status), Some(<<"Tweet removed (410)">>),
                      Some(oembed_status), Some(candidate_url)))
    ELSE IF fetch_status = 429
    THEN Some(Outcome("rate_limited", Some(fetch_status),
                      Some(<<"Rate limited while fetching tweet">>),
                      Some(oembed_status), Some(candidate_url)))
    ELSE IF fetch_status = 451
    THEN Some(Outcome("unavailable_legal", Some(fetch_status),
                      Some(<<"Tweet unavailable due to legal demand">>),
                      Some(oembed_status), Some(candidate_url)))
    ELSE None

\* the returning ifs of the loop body: None when the loop goes on
FetchBranch(fetch_status, oembed_status, candidate_url) ==
    IF fetch_status = 200
    THEN Some(Outcome("public", Some(fetch_status), None, Some(oembed_status),
                      Some(candidate_url)))
    ELSE IF fetch_status \in {401, 403}
    THEN Some(Outcome("restricted", Some(fetch_status),
                      Some(<<"Tweet requires authentication or is protected">>),
                      Some(oembed_status), Some(candidate_url)))
    ELSE IF fetch_status = 410
    THEN Some(Outcome("gone", Some(fetch_status), Some(<<"Tweet removed (410)">>),
                      Some(oembed_status), Some(candidate_url)))
    ELSE IF fetch_status = 429
    THEN Some(Outcome("rate_limited", Some(fetch_status),
                      Some(<<"Rate limited while fetching tweet">>),
                      Some(oembed_status), Some(candidate_url)))
    ELSE IF fetch_status = 451
    THEN Some(Outcome("unavailable_legal", Some(fetch_status),
                      Some(<<"Tweet unavailable due to legal demand">>),
                      Some(oembed_status), Some(candidate_url)))
    ELSE None

\* NextLastDetail whose message names the oEmbed status instead of the
\* status of the fetch
NextLastDetailEmbedStatus(fetch_status, status_code) ==
    IF fetch_status = 404
    THEN IF status_code = 200
         THEN Some(<<"Tweet page returned 404 despite oEmbed success">>)
         ELSE Some(<<"Tweet not found or removed">>)
    ELSE Some(<<"Unexpected ", StatusText(status_code), " response while fetching tweet">>)

\* NextLastDetail that reuses the message of the oEmbed 404 branch
NextLastDetailPlain(fetch_status, status_code) ==
    IF fetch_status = 404
    THEN Some(<<"Tweet not found or removed">>)
    ELSE Some(<<"Unexpected ", StatusText(fetch_status), " response while fetching tweet">>)

\* last_detail after a status that does not return
NextLastDetail(fetch_status, status_code) ==
    IF fetch_status = 404
    THEN IF status_code = 200
         THEN Some(<<"Tweet page returned 404 despite oEmbed success">>)
         ELSE Some(<<"Tweet not found or removed">>)
    ELSE Some(<<"Unexpected ", StatusText(fetch_status), " response while fetching tweet">>)

\* NextLastException that keeps the first failure
NextLastExceptionFirst(last_exception, exc) ==
    IF last_exception = None THEN Some(exc) ELSE last_exception

\* last_exception = str(exc)
NextLastException(last_exception, exc) == Some(exc)

\* AfterLoop whose second return leaves checked_url empty like the first
AfterLoopNoUrl(last_status, last_detail, last_url, last_exception, oembed_status) ==
    IF last_status = None
    THEN Outcome("error", None,
                 IF last_exception # None /\ last_exception[1] # <<>>
                 THEN Some(<<"Direct fetch failed: ">> \o last_exception[1])
                 ELSE Some(<<"Direct fetch failed">>),
                 Some(oembed_status), None)
    ELSE Outcome(IF last_status = Some(404) THEN "not_found" ELSE "unknown",
                 last_status, last_detail, Some(oembed_status), None)

\* AfterLoop whose second return reports the last fetch status as the oEmbed
\* status too
AfterLoopFetchAsEmbed(last_status, last_detail, last_url, last_exception, oembed_status) ==
    IF last_status = None
    THEN Outcome("error", None,
                 IF last_exception # None /\ last_exception[1] # <<>>
                 THEN Some(<<"Direct fetch failed: ">> \o last_exception[1])
                 ELSE Some(<<"Direct fetch failed">>),
                 Some(oembed_status), None)
    ELSE Outcome(IF last_status = Some(404) THEN "not_found" ELSE "unknown",
                 last_status, last_detail, last_status, last_url)

\* AfterLoop that trusts the oEmbed answer when no candidate responded
AfterLoopTrustEmbed(last_status, last_detail, last_url, last_exception, oembed_status) ==
    IF last_status = None
    THEN Outcome(IF oembed_status = 200 THEN "public" ELSE "error", None,
                 IF last_exception # None /\ last_exception[1] # <<>>
                 THEN Some(<<"Direct fetch failed: ">> \o last_exception[1])
                 ELSE Some(<<"Direct fetch failed">>),
                 Some(oembed_status), None)
    ELSE Outcome(IF last_status = Some(404) THEN "not_found" ELSE "unknown",
                 last_status, last_detail, Some(oembed_status), last_url)

\* the two returns after the loop
AfterLoop(last_status, last_detail, last_url, last_exception, oembed_status) ==
    IF last_status = None
    THEN Outcome("error", None,
                 IF last_exception # None /\ last_exception[1] # <<>>
                 THEN Some(<<"Direct fetch failed: ">> \o last_exception[1])
                 ELSE Some(<<"Direct fetch failed">>),
                 Some(oembed_status), None)
    ELSE Outcome(IF last_status = Some(404) THEN "not_found" ELSE "unknown",
                 last_status, last_detail, Some(oembed_status), last_url)

(***************************************************************************)
(* Inputs of a batch run and answers of the network                        *)
(***************************************************************************)

\* largest number of rows of a batch
MaxRows == 2

\* https://twitter.com/acct/status/1
UrlTweet1 == <<"https:", "/", "/", "twitter.com", "/", "acct", "/", "status", "/", "1">>

\* www.x.com/acct/status/2
UrlTweet2 == <<"www.", "x.com", "/", "acct", "/", "status", "/", "2">>

\* https://evil.com/x.com/acct/status/1 : carries identifier 1 on a foreign host
UrlForeignHost == <<"https:", "/", "/", "evil.com", "/", "x.com", "/", "acct", "/",
                    "status", "/", "1">>

\* [https://twitter.com/acct/status/2 : a link pasted with a stray bracket
UrlBracket == <<"[", "https:", "/", "/", "twitter.com", "/", "acct", "/", "status", "/", "2">>

\* bad-input-no-id
UrlNoId == <<"bad-input-no-id">>

\* the values of the URL column: five strings and an empty cell (NaN)
Cells ==
    {Text(UrlTweet1), Text(UrlTweet2), Text(UrlForeignHost), Text(UrlBracket),
     Text(UrlNoId), [str |-> FALSE, val |-> <<>>]}

\* the batches of at most n rows
RECURSIVE BatchesUpTo(_)
BatchesUpTo(n) ==
    IF n = 0 THEN {<<>>}
    ELSE LET shorter == BatchesUpTo(n - 1)
         IN shorter \cup {Append(b, c) : b \in shorter, c \in Cells}

Batches == BatchesUpTo(MaxRows)

\* extract_tweet_id on the cells, as a table
TweetIdOf == [c \in Cells |-> extract_tweet_id(c)]

\* normalize_input_url on the cells, as a table
NormalizedOf == [c \in Cells |-> normalize_input_url(c)]

\* str(exc) of a requests exception: the message names the URL requested
ExcText(url) == <<"ConnectionError: ">> \o url

\* the canonical URL the embed endpoint reports for a post
CanonicalFor(tweet_id) ==
    <<"https:", "/", "/", "twitter.com", "/", "acct", "/", "status", "/">> \o tweet_id
        \o <<"?", "s=20">>

\* bodies of a 200 answer of the embed endpoint: not JSON, an object without
\* "url", an object with a canonical "url", an object whose "url" is not a
\* string, and JSON that is not an object
EmbedBodies(tweet_id) ==
    {[kind |-> "invalid", url |-> None],
     [kind |-> "object", url |-> None],
     [kind |-> "object", url |-> Some(Text(CanonicalFor(tweet_id)))],
     [kind |-> "object", url |-> Some([str |-> FALSE, val |-> <<>>])],
     [kind |-> "array", url |-> None]}

NoBody == [kind |-> "none", url |-> None]

Failure(url) == [ok |-> FALSE, status |-> 0, exc |-> ExcText(url), body |-> NoBody]

EmbedResponses(tweet_id, url) ==
    {Failure(url)}
    \cup {[ok |-> TRUE, status |-> c, exc |-> <<>>, body |-> NoBody] :
             c \in {401, 403, 404, 410, 429, 500}}
    \cup {[ok |-> TRUE, status |-> 200, exc |-> <<>>, body |-> b] : b \in EmbedBodies(tweet_id)}

FetchResponses(url) ==
    {Failure(url)}
    \cup {[ok |-> TRUE, status |-> c, exc |-> <<>>, body |-> NoBody] :
             c \in {200, 401, 403, 404, 410, 429, 451, 500}}

(***************************************************************************)
(* The batch loop (main; run_checks of app.py is the same loop)            *)
(***************************************************************************)

\* urls holds the arguments and results of the URL functions when they are
\* exercised on their own (UrlSpec); it is idle during a batch run
VARIABLES rows, index, pc, cache, results, frame, ret, calls, log, urls

vars == <<rows, index, pc, cache, results, frame, ret, calls, log, urls>>

\* checked_at: one timestamp for the whole batch
checked_at == <<"2026-01-01T00:00:00+00:00">>

\* the locals of check_tweet outside a call
NoFrame ==
    [tweet_id |-> <<>>, normalized_input |-> <<>>, oembed_status |-> None,
     detail |-> None, canonical_url |-> None, fetch_urls |-> <<>>, pos |-> 0,
     last_status |-> None, last_detail |-> None, last_url |-> None,
     last_exception |-> None]

\* InvalidRecord reported as a post that was looked up and not found
InvalidRecordNotFound ==
    [tweet_id |-> None, availability |-> "not_found", http_status |-> Some(404),
     detail |-> Some(<<"Tweet ID not found in URL">>), checked_at |-> checked_at,
     oembed_status |-> None, checked_url |-> None]

\* the dict appended for a row without identifier
InvalidRecord ==
    [tweet_id |-> None, availability |-> "invalid_url", http_status |-> None,
     detail |-> Some(<<"Tweet ID not found in URL">>), checked_at |-> checked_at,
     oembed_status |-> None, checked_url |-> None]

\* Record that forgets the URL that was checked
RecordWithoutUrl(tweet_id, entry) ==
    [tweet_id |-> Some(tweet_id), availability |-> entry.availability,
     http_status |-> entry.http_status, detail |-> entry.detail,
     checked_at |-> checked_at, oembed_status |-> entry.oembed_status,
     checked_url |-> None]

\* the dict appended for a row with identifier
Record(tweet_id, entry) ==
    [tweet_id |-> Some(tweet_id), availability |-> entry.availability,
     http_status |-> entry.http_status, detail |-> entry.detail,
     checked_at |-> checked_at, oembed_status |-> entry.oembed_status,
     checked_url |-> entry.checked_url]

\* CacheMiss that classifies again when the stored outcome is invalid_url
CacheMissOrInvalid(tweet_id, c) ==
    IF tweet_id \in DOMAIN c THEN c[tweet_id].availability = "invalid_url" ELSE TRUE

\* CacheMiss without the lookup: every row is classified again
CacheMissAlways(tweet_id, c) == TRUE

\* tweet_id not in cache
CacheMiss(tweet_id, c) == tweet_id \notin DOMAIN c

\* cache[tweet_id] = value
CacheStore(c, tweet_id, value) ==
    [k \in DOMAIN c \cup {tweet_id} |-> IF k = tweet_id THEN value ELSE c[k]]

\* the URL functions are not exercised on their own
NoUrls ==
    [step |-> "idle", original_url |-> Text(<<>>), tweet_id |-> <<>>,
     canonical_url |-> None, normalized_input |-> None, renormalized |-> None,
     fetch_urls |-> <<>>]

Init ==
    /\ rows \in Batches
    /\ index = 0
    /\ pc = "loop"
    /\ cache = <<>>
    /\ results = <<>>
    /\ frame = NoFrame
    /\ ret = None
    /\ calls = <<>>
    /\ log = <<>>
    /\ urls = NoUrls

\* a row whose URL carries no identifier
RowNoId ==
    /\ pc = "loop" /\ index < Len(rows)
    /\ extract_tweet_id(rows[index + 1]) = None
    /\ index' = index + 1
    /\ results' = Append(results, InvalidRecord)
    /\ UNCHANGED <<rows, pc, cache, frame, ret, calls, log, urls>>

\* a row whose identifier is in the cache
RowCached ==
    /\ pc = "loop" /\ index < Len(rows)
    /\ extract_tweet_id(rows[index + 1]) # None
    /\ LET tweet_id == extract_tweet_id(rows[index + 1])[1]
       IN /\ ~CacheMiss(tweet_id, cache)
          /\ results' = Append(results, Record(tweet_id, cache[tweet_id]))
    /\ index' = index + 1
    /\ UNCHANGED <<rows, pc, cache, frame, ret, calls, log, urls>>

\* a row whose identifier is not in the cache: check_tweet is entered and
\* runs up to its first request (normalize_input_url and the invalid_url
\* return); an exception of normalize_input_url is caught nowhere and ends
\* the run
CallCheckTweet ==
    /\ pc = "loop" /\ index < Len(rows)
    /\ extract_tweet_id(rows[index + 1]) # None
    /\ LET tweet_id == extract_tweet_id(rows[index + 1])[1]
           normalized_input == normalize_input_url(rows[index + 1])
       IN /\ CacheMiss(tweet_id, cache)
          /\ calls' = Append(calls, [row |-> index + 1, tweet_id |-> tweet_id])
          /\ IF normalized_input.raised
             THEN /\ pc' = "aborted"
                  /\ frame' = [NoFrame EXCEPT !.tweet_id = tweet_id]
                  /\ ret' = None
             ELSE IF normalized_input.val = None
             THEN /\ pc' = "ret"
                  /\ frame' = [NoFrame EXCEPT !.tweet_id = tweet_id]
                  /\ ret' = Some(NotNormalized)
             ELSE /\ pc' = "embed"
                  /\ frame' = [NoFrame EXCEPT !.tweet_id = tweet_id,
                                             !.normalized_input = normalized_input.val[1]]
                  /\ ret' = None
    /\ index' = index + 1
    /\ UNCHANGED <<rows, cache, results, log, urls>>

\* the oEmbed request and the code up to the first direct fetch; the
\* AttributeError of response.json().get on a body that is no object and an
\* exception of build_fetch_urls are caught nowhere and end the run
EmbedProbe ==
    /\ pc = "embed"
    /\ \E response \in EmbedResponses(frame.tweet_id, frame.normalized_input) :
         LET branch == OembedBranch(response.status, response.status)
             canonical_url == IF response.body.kind = "object" THEN response.body.url ELSE None
             detail == IF response.body.kind = "invalid"
                       THEN Some(<<"Failed to parse oEmbed payload: ValueError">>)
                       ELSE None
             built == build_fetch_urls(frame.tweet_id, frame.normalized_input, canonical_url)
             entered == [frame EXCEPT !.oembed_status = Some(response.status),
                                      !.detail = detail,
                                      !.canonical_url = canonical_url,
                                      !.fetch_urls = built.val,
                                      !.pos = 1]
         IN /\ log' = Append(log, [kind |-> "oembed", url |-> frame.normalized_input,
                                   ok |-> response.ok, status |-> response.status,
                                   exc |-> response.exc])
            /\ IF ~response.ok
               THEN /\ ret' = Some(OembedFailed(response.exc))
                    /\ pc' = "ret"
                    /\ frame' = frame
               ELSE IF branch # None
               THEN /\ ret' = branch
                    /\ pc' = "ret"
                    /\ frame' = [frame EXCEPT !.oembed_status = Some(response.status)]
               ELSE IF response.body.kind = "array" \/ built.raised
               THEN /\ ret' = None
                    /\ pc' = "aborted"
                    /\ frame' = [frame EXCEPT !.oembed_status = Some(response.status)]
               ELSE IF built.val = <<>>
               THEN /\ ret' = Some(AfterLoop(None, None, None, None, response.status))
                    /\ pc' = "ret"
                    /\ frame' = entered
               ELSE /\ ret' = None
                    /\ pc' = "fetch"
                    /\ frame' = entered
    /\ UNCHANGED <<rows, index, cache, results, calls, urls>>

\* one iteration of the loop over fetch_urls, and the code after the loop
\* when it was the last one
FetchCandidate ==
    /\ pc = "fetch"
    /\ LET candidate_url == frame.fetch_urls[frame.pos]
           oembed_status == frame.oembed_status[1]
       IN \E response \in FetchResponses(candidate_url) :
            LET branch == IF response.ok
                          THEN FetchBranch(response.status, oembed_status, candidate_url)
                          ELSE None
                after == IF ~response.ok
                         THEN [frame EXCEPT !.last_exception =
                                   NextLastException(frame.last_exception, response.exc),
                                            !.pos = frame.pos + 1]
                         ELSE [frame EXCEPT !.last_status = Some(response.status),
                                            !.last_url = Some(candidate_url),
                                            !.last_detail =
                                   IF branch # None THEN frame.last_detail
                                   ELSE NextLastDetail(response.status, oembed_status),
                                            !.pos = frame.pos + 1]
            IN /\ log' = Append(log, [kind |-> "fetch", url |-> candidate_url,
                                      ok |-> response.ok, status |-> response.status,
                                      exc |-> response.exc])
               /\ frame' = after
               /\ IF branch # None
                  THEN ret' = branch /\ pc' = "ret"
                  ELSE IF after.pos > Len(frame.fetch_urls)
                  THEN /\ ret' = Some(AfterLoop(after.last_status, after.last_detail,
                                                after.last_url, after.last_exception,
                                                oembed_status))
                       /\ pc' = "ret"
                  ELSE ret' = None /\ pc' = "fetch"
    /\ UNCHANGED <<rows, index, cache, results, calls, urls>>

\* check_tweet has returned: the value is stored and the row's dict appended
StoreResult ==
    /\ pc = "ret"
    /\ cache' = CacheStore(cache, frame.tweet_id, ret[1])
    /\ results' = Append(results, Record(frame.tweet_id, cache'[frame.tweet_id]))
    /\ frame' = NoFrame
    /\ ret' = None
    /\ log' = <<>>
    /\ pc' = "loop"
    /\ UNCHANGED <<rows, index, calls, urls>>

\* the loop is over
Finish ==
    /\ pc = "loop" /\ index = Len(rows)
    /\ pc' = "done"
    /\ UNCHANGED <<rows, index, cache, results, frame, ret, calls, log, urls>>

Next ==
    \/ RowNoId
    \/ RowCached
    \/ CallCheckTweet
    \/ EmbedProbe
    \/ FetchCandidate
    \/ StoreResult
    \/ Finish

Spec == Init /\ [][Next]_vars

(***************************************************************************)
(* The URL functions on their own: check_tweet up to its first request and *)
(* the call of build_fetch_urls, on more URLs than a batch run of the      *)
(* model carries                                                           *)
(***************************************************************************)

\*  HTTPS://WWW.x.com/acct/statuses/2?s=20  (blanks around it)
UrlUpper ==
    <<" ", "HTTPS:", "/", "/", "WWW.", "x.com", "/", "acct", "/", "statuses", "/", "2",
      "?", "s=20", " ">>

\* https://twitter.com/acct/status/1 ?s=20 : a blank typed before the query
UrlBlankQuery ==
    <<"https:", "/", "/", "twitter.com", "/", "acct", "/", "status", "/", "1", " ",
      "?", "s=20">>

\* //www.twitter.com/acct/status/1#frag
UrlNoScheme ==
    <<"/", "/", "www.", "twitter.com", "/", "acct", "/", "status", "/", "1", "#", "frag">>

\* https://mobile.twitter.com/acct/status/1?s=20#frag
UrlMobile ==
    <<"https:", "/", "/", "mobile.twitter.com", "/", "acct", "/", "status", "/", "1",
      "?", "s=20", "#", "frag">>

\* https://nottwitter.com/acct/status/1
UrlLookalike ==
    <<"https:", "/", "/", "nottwitter.com", "/", "acct", "/", "status", "/", "1">>

\* http://twitter.com/i/status/1
UrlHttp == <<"http:", "/", "/", "twitter.com", "/", "i", "/", "status", "/", "1">>

\* URLs of rows that carry an identifier: the original_url of check_tweet
OriginalUrls ==
    {UrlTweet1, UrlTweet2, UrlForeignHost, UrlBracket, UrlUpper, UrlBlankQuery,
     UrlNoScheme, UrlMobile, UrlLookalike, UrlHttp}

\* values of "url" in the body of the embed endpoint: absent, the canonical URL
\* with and without query, an empty string, a value that is not a string, and
\* strings the endpoint is not expected to send (foreign host, stray bracket,
\* no scheme, leading blank, fragment)
CanonicalUrls(tweet_id) ==
    {None,
     Some(Text(CanonicalFor(tweet_id))),
     Some(Text(<<"https:", "/", "/", "x.com", "/", "acct", "/", "status", "/">> \o tweet_id)),
     Some(Text(<<>>)),
     Some([str |-> FALSE, val |-> <<>>]),
     Some(Text(<<"https:", "/", "/", "evil.com", "/", "acct", "?", "s=20">>)),
     Some(Text(<<"[", "https:", "/", "/", "twitter.com", "/", "acct">>)),
     Some(Text(<<"twitter.com", "/", "i", "/", "status", "/">> \o tweet_id \o <<"?", "s=20">>)),
     Some(Text(<<" ", "https:", "/", "/", "x.com", "/", "other", "/", "status", "/">>
               \o tweet_id \o <<"?", "s=20">>)),
     Some(Text(<<"https:", "/", "/", "mobile.twitter.com", "/", "acct", "/", "status", "/">>
               \o tweet_id \o <<"?", "s=20", "#", "frag">>)),
     Some(Text(<<"/", "/", "www.", "x.com", "/", "other", "/", "status", "/">> \o tweet_id))}

\* the arguments of one call of check_tweet and the answer of the endpoint
UrlsStart(original_url, canonical_url) ==
    [NoUrls EXCEPT !.step = "start", !.original_url = Text(original_url),
                   !.tweet_id = extract_tweet_id(Text(original_url))[1],
                   !.canonical_url = canonical_url]

UrlInit ==
    /\ rows = <<>> /\ index = 0 /\ pc = "done" /\ cache = <<>> /\ results = <<>>
    /\ frame = NoFrame /\ ret = None /\ calls = <<>> /\ log = <<>>
    /\ \E original_url \in OriginalUrls :
         \E canonical_url \in CanonicalUrls(extract_tweet_id(Text(original_url))[1]) :
           urls = UrlsStart(original_url, canonical_url)

\* urls after normalize_input_url(original_url)
AfterNormalize(u, normalized) ==
    IF normalized.raised THEN [u EXCEPT !.step = "raised"]
    ELSE IF normalized.val = None THEN [u EXCEPT !.step = "rejected"]
    ELSE [u EXCEPT !.step = "normalized", !.normalized_input = normalized.val]

\* normalized_input = normalize_input_url(original_url)
CallNormalize ==
    /\ urls.step = "start"
    /\ urls' = AfterNormalize(urls, normalize_input_url(urls.original_url))
    /\ UNCHANGED <<rows, index, pc, cache, results, frame, ret, calls, log>>

\* urls after the normalized URL went through normalize_input_url again
AfterNormalizeAgain(u, normalized) ==
    IF normalized.raised THEN [u EXCEPT !.step = "raised"]
    ELSE [u EXCEPT !.step = "renormalized", !.renormalized = normalized.val]

\* build_fetch_urls passes its normalized_url seed through normalize_input_url
CallNormalizeAgain ==
    /\ urls.step = "normalized"
    /\ urls' = AfterNormalizeAgain(urls, normalize_input_url(Text(urls.normalized_input[1])))
    /\ UNCHANGED <<rows, index, pc, cache, results, frame, ret, calls, log>>

\* urls after build_fetch_urls
AfterBuild(u, built) ==
    IF built.raised THEN [u EXCEPT !.step = "raised"]
    ELSE [u EXCEPT !.step = "built", !.fetch_urls = built.val]

\* fetch_urls = build_fetch_urls(tweet_id, normalized_input, canonical_url)
CallBuildFetchUrls ==
    /\ urls.step = "renormalized"
    /\ urls' = AfterBuild(urls, build_fetch_urls(urls.tweet_id, urls.normalized_input[1],
                                                 urls.canonical_url))
    /\ UNCHANGED <<rows, index, pc, cache, results, frame, ret, calls, log>>

UrlNext ==
    \/ CallNormalize
    \/ CallNormalizeAgain
    \/ CallBuildFetchUrls

UrlSpec == UrlInit /\ [][UrlNext]_vars

(***************************************************************************)
(* Properties                                                              *)
(***************************************************************************)

\* the identifiers carried by the cells
Ids == {<<"1">>, <<"2">>}

\* statuses on which the loop over the candidates returns
DecisiveCodes == {200, 401, 403, 410, 429, 451}

\* the rows up to n that carry identifier id
Carriers(id, n) == {k \in 1..n : TweetIdOf[rows[k]] = Some(id)}

\* the oEmbed request of the running call was answered with 200
Embed200 == log # <<>> /\ log[1].kind = "oembed" /\ log[1].ok /\ log[1].status = 200

\* positions in log of the direct fetches
FetchIdx == 2..Len(log)

IsDecisive(entry) == entry.ok /\ entry.status \in DecisiveCodes

\* the call in progress has returned after trying every candidate without a
\* decisive status
Exhausted ==
    /\ pc = "ret" /\ Embed200
    /\ Len(log) = Len(frame.fetch_urls) + 1
    /\ \A i \in FetchIdx : ~IsDecisive(log[i])

\* C1: check_tweet is invoked exactly once per identifier, on the first row
\* that carries it, and HTTP requests are only issued while such a first row
\* is processed: rows answered from the cache issue none.
C1_OneCheckPerIdentifier ==
    /\ \A id \in Ids :
         LET made == {i \in 1..Len(calls) : calls[i].tweet_id = id}
         IN IF Carriers(id, index) = {} THEN made = {}
            ELSE /\ Cardinality(made) = 1
                 /\ \A i \in made : \A k \in Carriers(id, index) : calls[i].row <= k
                 /\ \A i \in made : calls[i].row \in Carriers(id, index)
    /\ log # <<>> =>
         /\ TweetIdOf[rows[index]] # None
         /\ \A k \in 1..(index - 1) : TweetIdOf[rows[k]] # TweetIdOf[rows[index]]

\* two rows with the same identifier were answered, the first by a
\* classification that reached the network, the second from the cache
C1_Witness ==
    /\ pc = "done" /\ Len(results) = 2 /\ Len(calls) = 1
    /\ results[1].tweet_id # None /\ results[1].tweet_id = results[2].tweet_id
    /\ results[2].availability = "public"

\* C2: a cache entry is never overwritten or removed, and every record of a
\* row with an identifier carries the outcome fields of the entry stored for
\* that identifier.
C2_CacheEntriesStable ==
    [][/\ \A id \in DOMAIN cache : id \in DOMAIN cache' /\ cache'[id] = cache[id]
       /\ \A k \in 1..Len(results') :
            results'[k].tweet_id # None =>
              LET id == results'[k].tweet_id[1]
              IN /\ id \in DOMAIN cache'
                 /\ results'[k].availability = cache'[id].availability
                 /\ results'[k].http_status = cache'[id].http_status
                 /\ results'[k].detail = cache'[id].detail
                 /\ results'[k].oembed_status = cache'[id].oembed_status
                 /\ results'[k].checked_url = cache'[id].checked_url]_vars

\* two records share an identifier and carry the URL of a direct fetch
C2_Witness ==
    /\ Len(results) = 2
    /\ results[1].tweet_id # None /\ results[1].tweet_id = results[2].tweet_id
    /\ results[1].checked_url # None /\ results[2].checked_url = results[1].checked_url

\* the nine availability codes
AvailabilityCodes ==
    {"invalid_url", "public", "restricted", "not_found", "rate_limited",
     "unavailable_legal", "gone", "unknown", "error"}

\* C3: the batch is never aborted; the i-th record belongs to the i-th row,
\* its availability is one of the nine codes, and at the end there is one
\* record per row.
C3_OneRecordPerRow ==
    /\ pc # "aborted"
    /\ Len(results) = IF pc \in {"loop", "done"} THEN index ELSE index - 1
    /\ \A k \in 1..Len(results) :
         /\ results[k].tweet_id = TweetIdOf[rows[k]]
         /\ results[k].availability \in AvailabilityCodes
    /\ pc = "done" => Len(results) = Len(rows)

\* C4: direct fetches are only issued after the oEmbed request of the same
\* call was answered with 200; after a failure or another status the call
\* has returned with the oEmbed request as its only request.
C4_FetchOnlyAfterEmbed200 ==
    log # <<>> =>
      /\ log[1].kind = "oembed"
      /\ \A i \in FetchIdx : log[i].kind = "fetch" /\ Embed200
      /\ ~Embed200 => pc = "ret" /\ Len(log) = 1

\* a first call ended on an oEmbed 404 without a fetch, a second one is
\* fetching after an oEmbed 200
C4_Witness ==
    /\ Len(results) = 1 /\ results[1].oembed_status = Some(404)
    /\ results[1].checked_url = None
    /\ Len(log) >= 2 /\ log[2].kind = "fetch"

\* C5: the outcome of a call that ends in phase 1: error without status on a
\* network failure, restricted on 401 and 403, not_found on 404, rate_limited
\* on 429, unknown on any other status; http_status is the oEmbed status and
\* checked_url is empty.
C5_Phase1Table ==
    (pc = "ret" /\ Len(log) = 1) =>
      LET e == log[1]
          r == ret[1]
      IN IF ~e.ok
         THEN r.availability = "error" /\ r.http_status = None /\ r.checked_url = None
         ELSE /\ e.status # 200
              /\ r.availability =
                   (CASE e.status \in {401, 403} -> "restricted"
                      [] e.status = 404 -> "not_found"
                      [] e.status = 429 -> "rate_limited"
                      [] OTHER -> "unknown")
              /\ r.http_status = Some(e.status)
              /\ r.checked_url = None

\* the oEmbed endpoint answered 403 and the call returned restricted
C5_Witness ==
    /\ pc = "ret" /\ Len(log) = 1 /\ log[1].ok /\ log[1].status = 403
    /\ ret[1].availability = "restricted"

\* C6: a direct fetch answered with 200, 401, 403, 410, 429 or 451 is the last
\* request of the call, which returns the outcome of that status with
\* http_status the status and checked_url the candidate fetched.
C6_FirstDecisiveCandidate ==
    \A i \in FetchIdx :
      IsDecisive(log[i]) =>
        /\ i = Len(log) /\ pc = "ret"
        /\ log[i].url = frame.fetch_urls[i - 1]
        /\ ret[1].availability =
             (CASE log[i].status = 200 -> "public"
                [] log[i].status \in {401, 403} -> "restricted"
                [] log[i].status = 410 -> "gone"
                [] log[i].status = 429 -> "rate_limited"
                [] log[i].status = 451 -> "unavailable_legal")
        /\ ret[1].http_status = Some(log[i].status)
        /\ ret[1].checked_url = Some(log[i].url)

\* the second candidate answered 410 after a first one that did not decide
C6_Witness ==
    /\ pc = "ret" /\ Len(log) = 3 /\ log[2].ok /\ log[2].status = 404
    /\ log[3].ok /\ log[3].status = 410
    /\ ret[1].availability = "gone" /\ ret[1].checked_url = Some(frame.fetch_urls[2])

\* C7: the direct fetches issued are a prefix of the candidate list, in list
\* order; no fetch but the last one is decisive, and the call returns only
\* after a decisive fetch or after the whole list.
C7_FetchesArePrefix ==
    Embed200 =>
      /\ Len(log) - 1 <= Len(frame.fetch_urls)
      /\ \A i \in FetchIdx : log[i].url = frame.fetch_urls[i - 1]
      /\ \A i \in FetchIdx : i < Len(log) => ~IsDecisive(log[i])
      /\ pc = "fetch" => Len(log) - 1 < Len(frame.fetch_urls) /\ frame.pos = Len(log)
      /\ pc = "ret" =>
           \/ Len(log) >= 2 /\ IsDecisive(log[Len(log)])
           \/ Len(log) - 1 = Len(frame.fetch_urls)

\* a connection error on the first candidate, then 200 on the second
C7_Witness ==
    /\ pc = "ret" /\ Len(log) = 3 /\ ~log[2].ok
    /\ log[3].ok /\ log[3].status = 200
    /\ ret[1].availability = "public" /\ ret[1].checked_url = Some(frame.fetch_urls[2])

\* the position in log of the last direct fetch that got an HTTP response
LastResponse == CHOOSE i \in FetchIdx : log[i].ok /\ \A j \in FetchIdx : log[j].ok => j <= i

\* C8: after an exhausted list with at least one HTTP response the outcome is
\* not_found when the last response was a 404 and unknown otherwise, with the
\* status and the candidate of that last response.
C8_LastStatusDecides ==
    (Exhausted /\ \E i \in FetchIdx : log[i].ok) =>
      /\ ret[1].availability = IF log[LastResponse].status = 404 THEN "not_found" ELSE "unknown"
      /\ ret[1].http_status = Some(log[LastResponse].status)
      /\ ret[1].checked_url = Some(log[LastResponse].url)

\* a 404, then a 500, then a network failure: unknown with the 500
C8_Witness ==
    /\ Exhausted /\ Len(log) >= 4
    /\ log[Len(log) - 2].ok /\ log[Len(log) - 2].status = 404
    /\ log[Len(log) - 1].ok /\ log[Len(log) - 1].status = 500
    /\ ~log[Len(log)].ok
    /\ ret[1].availability = "unknown" /\ ret[1].http_status = Some(500)

\* C9: when every direct fetch failed at the network level the outcome is
\* error without status and URL, and the detail is the message of the last
\* candidate's failure.
C9_AllFetchesFailed ==
    (pc = "ret" /\ Embed200 /\ Len(log) >= 2 /\ \A i \in FetchIdx : ~log[i].ok) =>
      /\ Len(log) = Len(frame.fetch_urls) + 1
      /\ ret[1].availability = "error"
      /\ ret[1].http_status = None
      /\ ret[1].checked_url = None
      /\ ret[1].detail = Some(<<"Direct fetch failed: ">> \o log[Len(log)].exc)

\* at least two candidates failed, with different messages
C9_Witness ==
    /\ pc = "ret" /\ Embed200 /\ Len(log) >= 3
    /\ \A i \in FetchIdx : ~log[i].ok
    /\ log[2].exc # log[Len(log)].exc
    /\ ret[1].availability = "error"

\* C10: when every direct fetch returned 404 the outcome is not_found with
\* status 404 and the detail that names the disagreement with the oEmbed
\* answer, not the message of the oEmbed 404 branch.
C10_Embed200ButAll404 ==
    (pc = "ret" /\ Embed200 /\ Len(log) >= 2
        /\ \A i \in FetchIdx : log[i].ok /\ log[i].status = 404) =>
      /\ Len(log) = Len(frame.fetch_urls) + 1
      /\ ret[1].availability = "not_found"
      /\ ret[1].http_status = Some(404)
      /\ ret[1].detail = Some(<<"Tweet page returned 404 despite oEmbed success">>)
      /\ ret[1].detail # OembedBranch(404, 404)[1].detail

\* every candidate of a list of at least three returned 404
C10_Witness ==
    /\ pc = "ret" /\ Embed200 /\ Len(log) >= 4
    /\ \A i \in FetchIdx : log[i].ok /\ log[i].status = 404
    /\ ret[1].availability = "not_found"

\* the row whose classification is in progress or has just returned
InCall == pc \in {"embed", "fetch", "ret"}

\* C11: the oembed_status of a returned outcome is the status code the oEmbed
\* request of that call was answered with, in either phase and on every
\* branch; it is empty exactly when no status code was received (no request
\* was issued, or the request failed at the network level).
C11_OutcomeCarriesEmbedStatus ==
    ret # None =>
      IF log # <<>> /\ log[1].ok
      THEN ret[1].oembed_status = Some(log[1].status)
      ELSE ret[1].oembed_status = None

\* the list was exhausted with a last status of 500 after an oEmbed 200
C11_Witness ==
    /\ Exhausted /\ log[Len(log)].ok /\ log[Len(log)].status = 500
    /\ ret[1].http_status = Some(500) /\ ret[1].oembed_status = Some(200)

\* C12: a row without identifier appends the invalid_url record with empty
\* identifier, http_status, oembed_status and checked_url in one step that
\* enters no check_tweet call, issues no request and leaves the cache alone.
C12_NoIdRowIsTerminal ==
    [][(pc = "loop" /\ index < Len(rows) /\ TweetIdOf[rows[index + 1]] = None) =>
         /\ Len(results') = Len(results) + 1
         /\ SubSeq(results', 1, Len(results)) = results
         /\ results'[Len(results')].availability = "invalid_url"
         /\ results'[Len(results')].tweet_id = None
         /\ results'[Len(results')].http_status = None
         /\ results'[Len(results')].oembed_status = None
         /\ results'[Len(results')].checked_url = None
         /\ calls' = calls /\ log' = log /\ log = <<>> /\ cache' = cache
         /\ pc' = "loop" /\ index' = index + 1]_vars

\* a row without identifier was answered after a row that filled the cache
C12_Witness ==
    /\ Len(results) = 2 /\ results[1].tweet_id # None
    /\ TweetIdOf[rows[2]] = None /\ results[2].availability = "invalid_url"
    /\ DOMAIN cache # {} /\ Len(calls) = 1

\* C13: when normalize_input_url returns nothing for the URL of the row being
\* classified, check_tweet has returned invalid_url with empty http_status,
\* oembed_status and checked_url, and no request was issued.
C13_RejectedUrlNoRequest ==
    (InCall /\ ~NormalizedOf[rows[index]].raised /\ NormalizedOf[rows[index]].val = None) =>
      /\ pc = "ret" /\ log = <<>>
      /\ ret[1].availability = "invalid_url"
      /\ ret[1].http_status = None
      /\ ret[1].oembed_status = None
      /\ ret[1].checked_url = None

\* the URL carries an identifier on a host outside the allow-set
C13_Witness ==
    /\ pc = "ret" /\ rows[index] = Text(UrlForeignHost) /\ log = <<>>
    /\ ret[1].availability = "invalid_url"

\* C19: an outcome is public only when the last request of the call was a
\* direct fetch answered with 200, after an oEmbed request answered with 200;
\* an oEmbed 200 without a direct fetch answered with 200 is never public.
C19_PublicNeedsFetch200 ==
    /\ (ret # None /\ ret[1].availability = "public") =>
         /\ Embed200 /\ Len(log) >= 2
         /\ log[Len(log)].kind = "fetch" /\ log[Len(log)].ok /\ log[Len(log)].status = 200
         /\ ret[1].http_status = Some(200)
         /\ ret[1].checked_url = Some(log[Len(log)].url)
    /\ \A k \in 1..Len(results) :
         results[k].availability = "public" =>
           /\ results[k].http_status = Some(200)
           /\ results[k].oembed_status = Some(200)
           /\ results[k].checked_url # None

\* a first post was found public by a direct fetch; for a second one the
\* oEmbed request was answered with 200 but every direct fetch failed
C19_Witness ==
    /\ Len(results) = 1 /\ results[1].availability = "public"
    /\ pc = "ret" /\ Embed200 /\ Len(log) = Len(frame.fetch_urls) + 1
    /\ \A i \in FetchIdx : ~log[i].ok
    /\ ret[1].availability = "error"

\* the first row up to n that carries the identifier of row k
FirstCarrier(k) ==
    CHOOSE f \in 1..k :
        /\ TweetIdOf[rows[f]] = TweetIdOf[rows[k]]
        /\ \A g \in 1..(f - 1) : TweetIdOf[rows[g]] # TweetIdOf[rows[k]]

\* C20: the record of a row with an identifier is the outcome of classifying
\* the URL of the first row that carries the identifier: the only call for
\* the identifier is made on that row, its oEmbed request carries that row's
\* normalized URL, and every later row gets the same outcome fields without a
\* call; when the first row's URL is not normalizable they are all
\* invalid_url, whatever their own URL is.
C20_FirstRowDecides ==
    /\ \A k \in 1..Len(results) :
         results[k].tweet_id # None =>
           /\ Record(results[k].tweet_id[1], results[FirstCarrier(k)]) = results[k]
           /\ \A i \in 1..Len(calls) :
                calls[i].tweet_id = results[k].tweet_id[1] => calls[i].row = FirstCarrier(k)
           /\ (~NormalizedOf[rows[FirstCarrier(k)]].raised
                 /\ NormalizedOf[rows[FirstCarrier(k)]].val = None) =>
                results[k].availability = "invalid_url"
    /\ InCall =>
         /\ FirstCarrier(index) = index
         /\ log # <<>> => log[1].url = NormalizedOf[rows[index]].val[1]

\* the first row carries identifier 1 on a foreign host, the second row is a
\* well-formed URL of the same post and is answered invalid_url from the cache
C20_Witness ==
    /\ Len(results) = 2 /\ rows[1] = Text(UrlForeignHost) /\ rows[2] = Text(UrlTweet1)
    /\ NormalizedOf[rows[2]].val # None
    /\ results[2].availability = "invalid_url" /\ Len(calls) = 1

(***************************************************************************)
(* Properties of the URL functions (UrlSpec)                               *)
(***************************************************************************)

\* the candidates one seed gives when it is the only seed
OwnCandidates(seed) ==
    SeedStep([raised |-> FALSE, seen |-> {}, candidates |-> <<>>], seed).candidates

\* the candidates of the seeds one after the other, duplicates included
RECURSIVE Attempts(_)
Attempts(seeds) ==
    IF seeds = <<>> THEN <<>> ELSE OwnCandidates(Head(seeds)) \o Attempts(Tail(seeds))

Keep(kept, u) == IF u \in Range(kept) THEN kept ELSE Append(kept, u)

\* the entries of s in order of first occurrence
RECURSIVE FirstOccurrences(_)
FirstOccurrences(s) ==
    IF s = <<>> THEN <<>>
    ELSE Keep(FirstOccurrences(SubSeq(s, 1, Len(s) - 1)), s[Len(s)])

NoDuplicates(s) == \A i, j \in 1..Len(s) : s[i] = s[j] => i = j

\* the seeds of the call held in urls
UrlsSeeds == Seeds(urls.tweet_id, urls.normalized_input[1], urls.canonical_url)

\* C14: the list build_fetch_urls returns is never empty, holds no entry
\* twice, and lists the candidates of the seeds in order of first occurrence,
\* whether the canonical URL is present, absent or not normalizable and with
\* or without a query.
C14_NonEmptyNoDuplicates ==
    urls.step = "built" =>
      /\ urls.fetch_urls # <<>>
      /\ NoDuplicates(urls.fetch_urls)
      /\ urls.fetch_urls = FirstOccurrences(Attempts(UrlsSeeds))

\* the canonical URL and the caller's URL gave the same candidate, which is
\* listed once, before the canonical URL's variant with the query
C14_Witness ==
    /\ urls.step = "built" /\ Len(urls.fetch_urls) = 4
    /\ Len(Attempts(UrlsSeeds)) = 7
    /\ urls.fetch_urls[2] = urls.fetch_urls[1] \o <<"?", "s=20">>

IndexOf(s, u) == CHOOSE i \in 1..Len(s) : s[i] = u

\* https://x.com/i/web/status/<id> and https://x.com/i/status/<id>
XWebStatus(tweet_id) ==
    <<"https:", "/", "/", "x.com", "/", "i", "/", "web", "/", "status", "/">> \o tweet_id

XStatus(tweet_id) ==
    <<"https:", "/", "/", "x.com", "/", "i", "/", "status", "/">> \o tweet_id

CanonicalSeed == IF Truthy(urls.canonical_url) THEN <<urls.canonical_url[1]>> ELSE <<>>

\* the canonical URL after the scheme repair of the loop over seeds, parsed
CanonicalParsed == urlparse(SeedWithScheme(urls.canonical_url[1].val))

\* normalize_input_url on the canonical URL without query and fragment
CanonicalBase == normalize_input_url(Text(SeedUrl(CanonicalParsed, <<>>)))

\* the canonical URL is a string that passes the URL Normalizer
CanonicalNormalizes ==
    /\ CanonicalSeed # <<>> /\ urls.canonical_url[1].str
    /\ CanonicalParsed.ok /\ CanonicalBase.val # None

\* the candidates of the canonical URL, of the caller's URL, of the templates
CanonicalPart == Attempts(CanonicalSeed)

InputPart == OwnCandidates(Text(urls.normalized_input[1]))

TemplatePart == Attempts([i \in 1..4 |-> Text(TemplateSeeds(urls.tweet_id)[i])])

\* https://x.com followed by a path or a query or nothing
OnXCom(u) ==
    /\ StartsWith(u, <<"https:", "/", "/", "x.com">>)
    /\ Len(u) > 4 => u[5] \in {"/", "?"}

\* C16: the candidates follow the seed priority: the host-rewritten canonical
\* URL is first when the canonical URL normalizes, directly followed by its
\* variant with the query when it has one; the candidate of the caller's URL
\* is the next entry unless it is one of those; every later entry comes from
\* the templates; and every candidate is an https URL on x.com.
C16_SeedPriorityOrder ==
    urls.step = "built" =>
      /\ \A i \in 1..Len(urls.fetch_urls) : OnXCom(urls.fetch_urls[i])
      /\ CanonicalNormalizes =>
           /\ urls.fetch_urls[1] = convert_to_x_domain(CanonicalBase.val[1], FALSE)
           /\ CanonicalParsed.query # <<>> =>
                /\ urls.fetch_urls[2] =
                     convert_to_x_domain(SeedUrl(CanonicalParsed, CanonicalParsed.query), TRUE)
                /\ "?" \in Range(urls.fetch_urls[2])
           /\ Len(CanonicalPart) = IF CanonicalParsed.query # <<>> THEN 2 ELSE 1
      /\ ~CanonicalNormalizes => CanonicalPart = <<>>
      /\ Len(InputPart) = 1
      /\ InputPart[1] \in Range(urls.fetch_urls)
      /\ InputPart[1] \notin Range(CanonicalPart) =>
           IndexOf(urls.fetch_urls, InputPart[1]) = Len(CanonicalPart) + 1
      /\ \A i \in 1..Len(urls.fetch_urls) :
           IF i <= Len(FirstOccurrences(CanonicalPart \o InputPart))
           THEN urls.fetch_urls[i] \in Range(CanonicalPart) \cup Range(InputPart)
           ELSE /\ urls.fetch_urls[i] \in Range(TemplatePart)
                /\ urls.fetch_urls[i] \notin Range(CanonicalPart) \cup Range(InputPart)

\* a canonical URL on twitter.com with a query, a caller's URL on www.x.com
\* with another path: five candidates, all on x.com
C16_Witness ==
    /\ urls.step = "built" /\ Len(urls.fetch_urls) = 5
    /\ CanonicalNormalizes /\ CanonicalParsed.query # <<>>
    /\ "twitter.com" \in Range(urls.canonical_url[1].val)
    /\ urls.fetch_urls[3] = InputPart[1]

\* the host normalize_input_url tests: lower-cased, without a leading "www."
HostTested(url) == HostOf(urlparse(WithHttps(Strip(url.val))).netloc)

\* C17: normalize_input_url gives back every URL it returns, and returns
\* nothing for an input whose host is outside the allow-set.
C17_NormalizeIdempotent ==
    /\ urls.step \in {"renormalized", "built"} => urls.renormalized = urls.normalized_input
    /\ (urls.step \notin {"idle", "start", "raised"}
          /\ ~(Len(HostTested(urls.original_url)) = 1
               /\ HostTested(urls.original_url)[1] \in allowed_hosts)) =>
         urls.step = "rejected"

(***************************************************************************)
(* Properties of a batch run, continued                                    *)
(***************************************************************************)

\* C18: a call of check_tweet requests the embed endpoint at most once and
\* no candidate twice, so it issues at most 1 + Len(fetch_urls) requests, and
\* a call that has issued a request ends with an outcome whatever the answers
\* are: it is never cut short by an exception.
C18_NoRetryAlwaysOutcome ==
    /\ Cardinality({i \in 1..Len(log) : log[i].kind = "oembed"}) <= 1
    /\ \A i, j \in FetchIdx : log[i].url = log[j].url => i = j
    /\ Len(log) <= 1 + Len(frame.fetch_urls)
    /\ pc = "aborted" => log = <<>>

\* the call in progress has returned from phase 2
Phase2Returned == pc = "ret" /\ Embed200 /\ Len(log) >= 2

\* the detail check_tweet gives for a direct fetch answered with status
DetailOfStatus(status) ==
    CASE status = 200 -> None
      [] status \in {401, 403} -> Some(<<"Tweet requires authentication or is protected">>)
      [] status = 410 -> Some(<<"Tweet removed (410)">>)
      [] status = 429 -> Some(<<"Rate limited while fetching tweet">>)
      [] status = 451 -> Some(<<"Tweet unavailable due to legal demand">>)
      [] status = 404 -> Some(<<"Tweet page returned 404 despite oEmbed success">>)
      [] OTHER -> Some(<<"Unexpected ", ToString(status), " response while fetching tweet">>)

\* C21: in an outcome of phase 2, checked_url is set exactly when http_status
\* is; then both and the detail are those of the last direct fetch that got
\* an HTTP response: checked_url is the candidate that was requested, an
\* entry of the candidate list, and the detail is the message of that status
\* (the 404 message exactly when http_status is 404), not the message of an
\* earlier response nor of a later network failure. Without any response
\* both are empty and the detail is the failure message.
C21_OneResponseDescribed ==
    Phase2Returned =>
      /\ (ret[1].checked_url # None) = (ret[1].http_status # None)
      /\ (ret[1].http_status # None) = (\E i \in FetchIdx : log[i].ok)
      /\ ret[1].http_status # None =>
           /\ ret[1].http_status = Some(log[LastResponse].status)
           /\ ret[1].checked_url = Some(log[LastResponse].url)
           /\ ret[1].checked_url[1] = frame.fetch_urls[LastResponse - 1]
           /\ ret[1].detail = DetailOfStatus(log[LastResponse].status)
           /\ (ret[1].detail = Some(<<"Tweet page returned 404 despite oEmbed success">>))
                = (ret[1].http_status = Some(404))
      /\ ret[1].http_status = None =>
           ret[1].detail = Some(<<"Direct fetch failed: ">> \o log[Len(log)].exc)

\* a 500, then a 404, then a network failure: the outcome describes the 404
C21_Witness ==
    /\ Exhausted /\ Len(log) >= 4
    /\ log[Len(log) - 2].ok /\ log[Len(log) - 2].status = 500
    /\ log[Len(log) - 1].ok /\ log[Len(log) - 1].status = 404
    /\ ~log[Len(log)].ok
    /\ ret[1].http_status = Some(404)
    /\ ret[1].checked_url = Some(log[Len(log) - 1].url)

====
